---------------------------- MODULE Spec2Model ----------------------------
(***************************************************************************)
(* pelicanconf.py as a state machine.                                      *)
(*                                                                         *)
(* The file is a Python module: an import followed by twenty assignment    *)
(* statements, executed top to bottom into a fresh module namespace each   *)
(* time the module is loaded.  A load is the execution of those            *)
(* statements; the namespace it leaves is the configuration object.  A     *)
(* lookup reads one option of a loaded configuration.                      *)
(*                                                                         *)
(* Python values are tagged records; strings are TLA+ strings, so the      *)
(* predicates on URLs and paths are computed character by character.       *)
(***************************************************************************)
EXTENDS Integers, Sequences, FiniteSets, TLC

VARIABLES
    pc,        \* 0: no load in progress; i >= 1: next statement of the load
    ns,        \* the namespace of the module being executed
    configs,   \* the namespaces of the loads that completed, oldest first
    exc,       \* "none", or the exception that aborted the load
    result     \* the outcome of the latest lookup

vars == <<pc, ns, configs, exc, result>>

(***************************************************************************)
(* Bounds of the model.                                                    *)
(***************************************************************************)
MaxLoads == 2

(***************************************************************************)
(* Python values.                                                          *)
(***************************************************************************)
None == [type |-> "NoneType"]

Str(s) == [type |-> "unicode", s |-> s]

IntVal(i) == [type |-> "int", n |-> i]

Bool(b) == [type |-> "bool", b |-> b]

Tuple(xs) == [type |-> "tuple", items |-> xs]

Feature == [type |-> "_Feature"]

Lit(v) == [op |-> "lit", val |-> v]

Name(id) == [op |-> "name", id |-> id]

Assign(line, name, expr) ==
    [line |-> line, kind |-> "assign", name |-> name, expr |-> expr]

Import(line, name) ==
    [line |-> line, kind |-> "import", name |-> name, expr |-> Lit(Feature)]

(***************************************************************************)
(* The statements of pelicanconf.py, in file order, block by block.        *)
(***************************************************************************)
\* Lines 3-14 with the site URL left at the generator's quickstart default.
SiteStatementsEmptyUrl ==
    << Import(3, "unicode_literals"),
       Assign(6, "AUTHOR", Lit(Str("Serge Bouchut"))),
       Assign(7, "SITENAME", Lit(Str("terrarium"))),
       Assign(8, "SITEURL", Lit(Str(""))),
       Assign(10, "PATH", Lit(Str("content"))),
       Assign(12, "TIMEZONE", Lit(Str("Europe/Paris"))),
       Assign(14, "DEFAULT_LANG", Lit(Str("fr"))) >>

SiteStatements ==
    << Import(3, "unicode_literals"),
       Assign(6, "AUTHOR", Lit(Str("Serge Bouchut"))),
       Assign(7, "SITENAME", Lit(Str("terrarium"))),
       Assign(8, "SITEURL", Lit(Str("https://sergebouchut.github.io/blog"))),
       Assign(10, "PATH", Lit(Str("content"))),
       Assign(12, "TIMEZONE", Lit(Str("Europe/Paris"))),
       Assign(14, "DEFAULT_LANG", Lit(Str("fr"))) >>

\* Lines 17-23 with the RSS feed written as a path from the root.
FeedStatementsRootedRss ==
    << Assign(17, "FEED_DOMAIN", Name("SITEURL")),
       Assign(18, "FEED_ALL_ATOM", Lit(None)),
       Assign(19, "FEED_ALL_RSS", Lit(Str("/feeds/rss.xml"))),
       Assign(20, "CATEGORY_FEED_ATOM", Lit(None)),
       Assign(21, "TRANSLATION_FEED_ATOM", Lit(None)),
       Assign(22, "AUTHOR_FEED_ATOM", Lit(None)),
       Assign(23, "AUTHOR_FEED_RSS", Lit(None)) >>

FeedStatements ==
    << Assign(17, "FEED_DOMAIN", Name("SITEURL")),
       Assign(18, "FEED_ALL_ATOM", Lit(None)),
       Assign(19, "FEED_ALL_RSS", Lit(Str("feeds/rss.xml"))),
       Assign(20, "CATEGORY_FEED_ATOM", Lit(None)),
       Assign(21, "TRANSLATION_FEED_ATOM", Lit(None)),
       Assign(22, "AUTHOR_FEED_ATOM", Lit(None)),
       Assign(23, "AUTHOR_FEED_RSS", Lit(None)) >>

\* The blogroll with its entries put in alphabetical order.
LINKS_Alphabetical ==
    Tuple(<< Tuple(<<Str("Jinja2"), Str("http://jinja.pocoo.org/")>>),
             Tuple(<<Str("Pelican"), Str("http://getpelican.com/")>>),
             Tuple(<<Str("Python.org"), Str("http://python.org/")>>) >>)

LINKS ==
    Tuple(<< Tuple(<<Str("Pelican"), Str("http://getpelican.com/")>>),
             Tuple(<<Str("Python.org"), Str("http://python.org/")>>),
             Tuple(<<Str("Jinja2"), Str("http://jinja.pocoo.org/")>>) >>)

SOCIAL ==
    Tuple(<< Tuple(<<Str("github"), Str("https://github.com/SergeBouchut/")>>),
             Tuple(<<Str("linkedin"),
                     Str("https://www.linkedin.com/in/sergebouchut/")>>),
             Tuple(<<Str("email"), Str("serge.bouchut+blog@gmail.com")>>),
             Tuple(<<Str("meetup"),
                     Str("https://www.meetup.com/fr-FR/members/190950919/")>>) >>)

LinkStatements ==
    << Assign(26, "LINKS", Lit(LINKS)),
       Assign(33, "SOCIAL", Lit(SOCIAL)) >>

\* Three adjacent literals: Python concatenates them at compile time.
BIO ==
    Str("Ingénieur logiciel #python #linux, Lyon. "
        \o "N'hésitez pas à laisser des commentaires pour me compléter, "
        \o "me corriger, me poser des questions ou simplement m'encourager ! :)")

\* Lines 40-50 followed by a development override of the site URL.
DisplayStatementsSiteUrlOverride ==
    << Assign(40, "DEFAULT_PAGINATION", Lit(IntVal(10))),
       Assign(45, "THEME", Lit(Str("pelican-hyde"))),
       Assign(46, "PROFILE_IMAGE", Lit(Str("profile.png"))),
       Assign(47, "BIO", Lit(BIO)),
       Assign(50, "DISQUS_SITENAME", Lit(Str("sergebouchut"))),
       Assign(51, "SITEURL", Lit(Str("http://localhost:8000"))) >>

\* Lines 40-50 with line 43 uncommented.
DisplayStatementsRelativeUrls ==
    << Assign(40, "DEFAULT_PAGINATION", Lit(IntVal(10))),
       Assign(43, "RELATIVE_URLS", Lit(Bool(TRUE))),
       Assign(45, "THEME", Lit(Str("pelican-hyde"))),
       Assign(46, "PROFILE_IMAGE", Lit(Str("profile.png"))),
       Assign(47, "BIO", Lit(BIO)),
       Assign(50, "DISQUS_SITENAME", Lit(Str("sergebouchut"))) >>

\* Lines 40-50 without the last line.
DisplayStatementsNoDisqus ==
    << Assign(40, "DEFAULT_PAGINATION", Lit(IntVal(10))),
       Assign(45, "THEME", Lit(Str("pelican-hyde"))),
       Assign(46, "PROFILE_IMAGE", Lit(Str("profile.png"))),
       Assign(47, "BIO", Lit(BIO)) >>

DisplayStatements ==
    << Assign(40, "DEFAULT_PAGINATION", Lit(IntVal(10))),
       Assign(45, "THEME", Lit(Str("pelican-hyde"))),
       Assign(46, "PROFILE_IMAGE", Lit(Str("profile.png"))),
       Assign(47, "BIO", Lit(BIO)),
       Assign(50, "DISQUS_SITENAME", Lit(Str("sergebouchut"))) >>

Statements ==
    SiteStatements \o FeedStatements \o LinkStatements \o DisplayStatements

(***************************************************************************)
(* Execution of one statement.                                             *)
(***************************************************************************)
\* A name on the right-hand side is looked up in the namespace built so far;
\* an unbound name raises NameError.
Raises(e, n) == e.op = "name" /\ e.id \notin DOMAIN n

\* An evaluation in which an integer literal picks up the number of loads
\* already completed (a value computed from process state).
EvalPerLoad(e, n) ==
    IF e.op = "lit"
    THEN IF e.val.type = "int"
         THEN IntVal(e.val.n + Len(configs))
         ELSE e.val
    ELSE n[e.id]

Eval(e, n) == IF e.op = "lit" THEN e.val ELSE n[e.id]

\* Binding a name replaces whatever the name was bound to.
Bind(n, k, v) == (k :> v) @@ n

EmptyNamespace == <<>>

Init ==
    /\ pc = 0
    /\ ns = EmptyNamespace
    /\ configs = <<>>
    /\ exc = "none"
    /\ result = [kind |-> "none"]

\* The module starts executing in a fresh namespace.
BeginLoad ==
    /\ exc = "none"
    /\ pc = 0
    /\ Len(configs) < MaxLoads
    /\ pc' = 1
    /\ ns' = EmptyNamespace
    /\ UNCHANGED <<configs, exc, result>>

\* The next statement of the file executes.
Exec ==
    /\ exc = "none"
    /\ pc \in 1..Len(Statements)
    /\ LET st == Statements[pc] IN
         IF Raises(st.expr, ns)
         THEN /\ exc' = "NameError"
              /\ UNCHANGED <<pc, ns>>
         ELSE /\ ns' = Bind(ns, st.name, Eval(st.expr, ns))
              /\ pc' = pc + 1
              /\ UNCHANGED exc
    /\ UNCHANGED <<configs, result>>

\* The last statement has executed: the namespace is the loaded configuration.
EndLoad ==
    /\ exc = "none"
    /\ pc = Len(Statements) + 1
    /\ configs' = Append(configs, ns)
    /\ pc' = 0
    /\ UNCHANGED <<ns, exc, result>>

(***************************************************************************)
(* The configuration object: the options of a loaded namespace, by field.  *)
(***************************************************************************)
\* The field of the data model that each option of the file supplies.
FieldOf ==
    ("AUTHOR" :> "author") @@ ("SITENAME" :> "site_name")
    @@ ("SITEURL" :> "site_url") @@ ("PATH" :> "content_path")
    @@ ("TIMEZONE" :> "timezone") @@ ("DEFAULT_LANG" :> "default_language")
    @@ ("FEED_DOMAIN" :> "feed_settings")
    @@ ("FEED_ALL_ATOM" :> "feed_settings")
    @@ ("FEED_ALL_RSS" :> "feed_settings")
    @@ ("CATEGORY_FEED_ATOM" :> "feed_settings")
    @@ ("TRANSLATION_FEED_ATOM" :> "feed_settings")
    @@ ("AUTHOR_FEED_ATOM" :> "feed_settings")
    @@ ("AUTHOR_FEED_RSS" :> "feed_settings")
    @@ ("LINKS" :> "blogroll") @@ ("SOCIAL" :> "social_links")
    @@ ("DEFAULT_PAGINATION" :> "pagination_size")
    @@ ("THEME" :> "theme_name") @@ ("PROFILE_IMAGE" :> "profile_image_path")
    @@ ("BIO" :> "bio_text")
    @@ ("DISQUS_SITENAME" :> "comments_integration_id")

\* The fields enumerated in section 3 of the specification.
Section3Fields ==
    { "author", "site_name", "site_url", "content_path", "timezone",
      "default_language", "feed_settings", "blogroll", "social_links",
      "pagination_size", "theme_name", "profile_image_path", "bio_text",
      "comments_integration_id" }

\* Names that are not options of the data model, used as lookup arguments.
OtherNames == { "nonexistent_option", "relative_urls" }

\* The options of a namespace: every name bound by an assignment (the import
\* binds a compiler feature, which is no option).
OptionNames(n) == { k \in DOMAIN n : n[k].type # "_Feature" }

\* An option that supplies no field of the data model is exposed as itself.
FieldName(k) == IF k \in DOMAIN FieldOf THEN FieldOf[k] ELSE k

\* The configuration set of a namespace: field -> value.  The feed options
\* are gathered into one mapping feed option -> path or None.
ToConfig(n) ==
    [ f \in { FieldName(k) : k \in OptionNames(n) } |->
        LET ks == { k \in OptionNames(n) : FieldName(k) = f } IN
          IF f = "feed_settings"
          THEN [type |-> "mapping", items |-> [k \in ks |-> n[k]]]
          ELSE n[CHOOSE k \in ks : TRUE] ]

\* The outcome of looking `option` up in the i-th loaded configuration.
Lookup(i, option) ==
    LET cfg == ToConfig(configs[i]) IN
      IF option \in DOMAIN cfg
      THEN [kind |-> "value", of |-> i, option |-> option,
            value |-> cfg[option]]
      ELSE [kind |-> "UnknownOptionError", of |-> i, option |-> option]

\* get(optionName) on a loaded configuration; it only reads.
Get(i, option) ==
    /\ exc = "none"
    /\ pc = 0
    /\ i \in 1..Len(configs)
    /\ result' = Lookup(i, option)
    /\ UNCHANGED <<pc, ns, configs, exc>>

Next ==
    \/ BeginLoad
    \/ Exec
    \/ EndLoad
    \/ \E i \in 1..MaxLoads, option \in Section3Fields \cup OtherNames :
         Get(i, option)

Spec == Init /\ [][Next]_vars

(***************************************************************************)
(* Predicates on strings and values used by the properties.                *)
(***************************************************************************)
HasPrefix(s, p) == Len(s) >= Len(p) /\ SubSeq(s, 1, Len(p)) = p

Contains(s, p) ==
    \E i \in 1..(Len(s) - Len(p) + 1) : SubSeq(s, i, i + Len(p) - 1) = p

SchemeChars ==
    { "a", "b", "c", "d", "e", "f", "g", "h", "i", "j", "k", "l", "m", "n",
      "o", "p", "q", "r", "s", "t", "u", "v", "w", "x", "y", "z", "+", "-",
      "." }

\* scheme "://" authority ..., with a non-empty scheme and authority.
IsAbsoluteURL(s) ==
    \E i \in 2..(Len(s) - 3) :
        /\ SubSeq(s, i, i + 2) = "://"
        /\ \A j \in 1..(i - 1) : SubSeq(s, j, j) \in SchemeChars
        /\ SubSeq(s, i + 3, i + 3) # "/"

\* A non-empty path that starts neither at the root nor with a scheme.
IsRelativePath(s) ==
    /\ Len(s) > 0
    /\ ~HasPrefix(s, "/")
    /\ ~Contains(s, "://")

NonEmptyString(v) == v.type = "unicode" /\ Len(v.s) > 0

AbsoluteURLString(v) == v.type = "unicode" /\ IsAbsoluteURL(v.s)

PositiveInteger(v) == v.type = "int" /\ v.n > 0

PathOrDisabled(v) == v = None \/ (v.type = "unicode" /\ IsRelativePath(v.s))

SequenceOfPairs(v) ==
    /\ v.type = "tuple"
    /\ \A j \in 1..Len(v.items) :
          /\ v.items[j].type = "tuple"
          /\ Len(v.items[j].items) = 2

\* The pairs of a tuple of pairs of strings, as <<first, second>> in order.
Pairs(v) ==
    [ j \in 1..Len(v.items) |->
        <<v.items[j].items[1].s, v.items[j].items[2].s>> ]

Loaded == { ToConfig(configs[i]) : i \in 1..Len(configs) }

\* The constraints of the data model that do not concern the feeds.
FieldsPresentAndValid(cfg) ==
    /\ Section3Fields \subseteq DOMAIN cfg
    /\ NonEmptyString(cfg["author"])
    /\ NonEmptyString(cfg["site_name"])
    /\ AbsoluteURLString(cfg["site_url"])
    /\ PositiveInteger(cfg["pagination_size"])
    /\ SequenceOfPairs(cfg["blogroll"])
    /\ SequenceOfPairs(cfg["social_links"])

FeedsPathOrDisabled(cfg) ==
    \A k \in DOMAIN cfg["feed_settings"].items :
        PathOrDisabled(cfg["feed_settings"].items[k])

\* Every feed option but the feed domain is a relative path or None, and the
\* feed domain is the site URL.
FeedsPathOrDisabledButDomain(cfg) ==
    /\ \A k \in DOMAIN cfg["feed_settings"].items \ {"FEED_DOMAIN"} :
          PathOrDisabled(cfg["feed_settings"].items[k])
    /\ "FEED_DOMAIN" \in DOMAIN cfg["feed_settings"].items
    /\ cfg["feed_settings"].items["FEED_DOMAIN"] = cfg["site_url"]
    /\ AbsoluteURLString(cfg["feed_settings"].items["FEED_DOMAIN"])

(***************************************************************************)
(* C1                                                                      *)
(***************************************************************************)
\* C1 as stated: the load never raises, and in every loaded configuration
\* every field of the data model is present and satisfies its constraint,
\* every feed setting being a relative path or disabled.
C1_AllConstraints ==
    /\ exc = "none"
    /\ \A cfg \in Loaded : FieldsPresentAndValid(cfg) /\ FeedsPathOrDisabled(cfg)

\* C1 amended: the load never raises, and in every loaded configuration
\* every field is present, author and site_name are non-empty strings,
\* site_url is an absolute URL, pagination_size is a positive integer,
\* blogroll and social_links are sequences of pairs, and every feed setting
\* other than the feed domain is a relative path or disabled, the feed
\* domain being the absolute site URL.
C1_ConstraintsButFeedDomain ==
    /\ exc = "none"
    /\ \A cfg \in Loaded :
          FieldsPresentAndValid(cfg) /\ FeedsPathOrDisabledButDomain(cfg)

C1_Witness ==
    /\ Len(configs) >= 1
    /\ pc = 0
    /\ result.kind = "value"
    /\ result.option = "site_url"

(***************************************************************************)
(* C9                                                                      *)
(***************************************************************************)
\* C9 as stated: each of the seven feed options assigned by the file,
\* FEED_DOMAIN included, is None or a relative path.
C9_EveryFeedValue ==
    \A i \in 1..Len(configs) :
        \A k \in { "FEED_DOMAIN", "FEED_ALL_ATOM", "FEED_ALL_RSS",
                   "CATEGORY_FEED_ATOM", "TRANSLATION_FEED_ATOM",
                   "AUTHOR_FEED_ATOM", "AUTHOR_FEED_RSS" } :
            /\ k \in DOMAIN configs[i]
            /\ PathOrDisabled(configs[i][k])

\* C9 amended: each of FEED_ALL_ATOM, FEED_ALL_RSS, CATEGORY_FEED_ATOM,
\* TRANSLATION_FEED_ATOM, AUTHOR_FEED_ATOM and AUTHOR_FEED_RSS is None or a
\* relative path; FEED_DOMAIN is neither: it is the value of SITEURL, an
\* absolute URL.
C9_EveryFeedValueButDomain ==
    \A i \in 1..Len(configs) :
        /\ \A k \in { "FEED_ALL_ATOM", "FEED_ALL_RSS", "CATEGORY_FEED_ATOM",
                      "TRANSLATION_FEED_ATOM", "AUTHOR_FEED_ATOM",
                      "AUTHOR_FEED_RSS" } :
              /\ k \in DOMAIN configs[i]
              /\ PathOrDisabled(configs[i][k])
        /\ "FEED_DOMAIN" \in DOMAIN configs[i]
        /\ configs[i]["FEED_DOMAIN"] = configs[i]["SITEURL"]
        /\ AbsoluteURLString(configs[i]["FEED_DOMAIN"])
        /\ ~PathOrDisabled(configs[i]["FEED_DOMAIN"])

C9_Witness ==
    /\ Len(configs) >= 1
    /\ result.kind = "value"
    /\ result.option = "feed_settings"
    /\ result.value.items["FEED_ALL_RSS"] = Str("feeds/rss.xml")
    /\ result.value.items["FEED_ALL_ATOM"] = None

(***************************************************************************)
(* C4                                                                      *)
(***************************************************************************)
\* The value the load bound for a field, read from the namespace itself.
IsLoadedValue(n, option, v) ==
    IF option = "feed_settings"
    THEN /\ v.type = "mapping"
         /\ DOMAIN v.items = { k \in DOMAIN n \cap DOMAIN FieldOf :
                                  FieldOf[k] = option }
         /\ \A k \in DOMAIN v.items : v.items[k] = n[k]
    ELSE \E k \in DOMAIN n \cap DOMAIN FieldOf :
            FieldOf[k] = option /\ v = n[k]

C4_Returns ==
    /\ result.kind = "value" =>
          /\ result.option \in Section3Fields
          /\ IsLoadedValue(configs[result.of], result.option, result.value)
    /\ result.kind = "UnknownOptionError" =>
          result.option \notin Section3Fields

C4_FailedGetOnlyReads ==
    (result' # result /\ result'.kind = "UnknownOptionError") =>
        UNCHANGED <<pc, ns, configs, exc>>

\* C4: a lookup returns the loaded value exactly when the name is one of
\* the fields of section 3 and fails with UnknownOptionError for every
\* other name; a failed lookup changes nothing but the reported outcome.
C4_GetKnownOrUnknown == []C4_Returns /\ [][C4_FailedGetOnlyReads]_vars

C4_Witness ==
    /\ result.kind = "UnknownOptionError"
    /\ result.option = "nonexistent_option"
    /\ Len(configs) >= 1

(***************************************************************************)
(* C5                                                                      *)
(***************************************************************************)
AssignedOnce ==
    \A i, j \in 1..Len(Statements) :
        Statements[i].name = Statements[j].name => i = j

\* Within a load a bound name keeps its value; a loaded configuration
\* never changes.
C5_Step ==
    /\ AssignedOnce
    /\ ~(pc = 0 /\ pc' = 1) =>
          \A k \in DOMAIN ns : k \in DOMAIN ns' /\ ns'[k] = ns[k]
    /\ Len(configs') >= Len(configs)
    /\ \A i \in 1..Len(configs) : configs'[i] = configs[i]

\* C5: no name is assigned more than once by the file, a name bound during
\* a load keeps its value for the rest of the load, and every loaded
\* configuration keeps, through every later load and lookup, the value it
\* had when its load ended.
C5_SetOnceNeverMutated == [][C5_Step]_vars

C5_Witness ==
    /\ Len(configs) >= 1
    /\ result.kind = "value"
    /\ result.of = 1
    /\ pc > 1

(***************************************************************************)
(* C6                                                                      *)
(***************************************************************************)
\* C6: a lookup of blogroll returns Pelican, Python.org, Jinja2 and a
\* lookup of social_links returns github, linkedin, email, meetup, each
\* with its URL, in the order of the file, nothing dropped or duplicated.
C6_InsertionOrder ==
    /\ (result.kind = "value" /\ result.option = "blogroll") =>
          Pairs(result.value) =
              << <<"Pelican", "http://getpelican.com/">>,
                 <<"Python.org", "http://python.org/">>,
                 <<"Jinja2", "http://jinja.pocoo.org/">> >>
    /\ (result.kind = "value" /\ result.option = "social_links") =>
          Pairs(result.value) =
              << <<"github", "https://github.com/SergeBouchut/">>,
                 <<"linkedin", "https://www.linkedin.com/in/sergebouchut/">>,
                 <<"email", "serge.bouchut+blog@gmail.com">>,
                 <<"meetup",
                   "https://www.meetup.com/fr-FR/members/190950919/">> >>

C6_Witness ==
    /\ result.kind = "value"
    /\ result.option = "blogroll"
    /\ Len(result.value.items) = 3

AssignedNames ==
    { Statements[i].name :
        i \in { j \in 1..Len(Statements) : Statements[j].kind = "assign" } }

\* The documented type of each field of section 3.
HasDocumentedType(f, v) ==
    CASE f \in {"blogroll", "social_links"} -> SequenceOfPairs(v)
      [] f = "pagination_size" -> v.type = "int"
      [] f = "feed_settings" ->
            /\ v.type = "mapping"
            /\ \A k \in DOMAIN v.items :
                  v.items[k].type \in {"unicode", "NoneType"}
      [] OTHER -> v.type = "unicode"

=============================================================================
